---- MODULE Spec2Model ----
(***************************************************************************)
(* RECON-AI drill-down engine: the LangGraph workflow of                   *)
(* backend/agents/workflow.py, the level agents, the specialist and        *)
(* pattern agents, the supervisor's aggregation and the escalation policy  *)
(* of AgentState.check_escalation.                                         *)
(*                                                                         *)
(* Units.  Python floats are modelled by exact integers:                   *)
(*   confidence, level weights          hundredths        (0.95 -> 95)     *)
(*   nav_per_share_variance             1e-5 dollars      (0.005 -> 500)   *)
(*   variance_relative                  1e-6              (0.0005 -> 500)  *)
(*   transaction amounts                cents             (1000.50 -> 100050) *)
(*   GL balances, NAV variance          dollars                            *)
(* overall_confidence is the exact quotient num/den kept as a pair.        *)
(* Where a float comparison sits exactly on its threshold the rounding of  *)
(* the operands decides the outcome (0.95-0.80 < 0.15 but not 0.90-0.75 <  *)
(* 0.15); such ties take their outcome from an explicit input.             *)
(***************************************************************************)
EXTENDS Integers, Sequences, FiniteSets, TLC

VARIABLES
    state,           \* the AgentState threaded through the nodes
    pc,              \* node the graph executes next, "END", or "raised"
    cpu_txns,        \* matcher harness: CPU-side transaction list
    incumbent_txns,  \* matcher harness: incumbent-side transaction list
    match_result     \* matcher harness: (matches, orphans, diffs) or NoResult

vars == <<state, pc, cpu_txns, incumbent_txns, match_result>>

----------------------------------------------------------------------------
(* Bounds of the model *)

MaxPatterns == 2      \* rows returned by one pattern search
MaxMatchTxns == 2     \* length of either list handed to the matcher
MaxPositions == 2     \* breaking positions handed to L3
MaxFindings == 2      \* findings appended to a base list before finalization

----------------------------------------------------------------------------
(* Program constants *)

MATERIALITY_THRESHOLD_ABSOLUTE == 500
CRITICAL_BREAK_THRESHOLD == 500
CONFIDENCE_ESCALATION_THRESHOLD == 70
GL_MATERIALITY == 1000
ROOT_CAUSE_FLOOR == 60
ROOT_CAUSE_LIMIT == 10
DESC_KEY_LEN == 100
CONFLICT_GAP == 15
DEFAULT_WEIGHT == 10

Phases == <<"INITIATED", "L0_NAV_ANALYSIS", "L1_GL_ANALYSIS",
            "L2_SUBLEDGER_ANALYSIS", "L3_TRANSACTION_ANALYSIS",
            "SPECIALIST_ANALYSIS", "PATTERN_MATCHING", "REPORT_GENERATION",
            "ESCALATED", "COMPLETED">>

AnalysisPhase == {Phases[i] : i \in 1..Len(Phases)}

BreakDriver == {"INCOME_DRIVEN", "EXPENSE_DRIVEN", "POSITION_DRIVEN",
                "CAPITAL_ACTIVITY_DRIVEN", "MULTI_FACTOR"}

\* Optional[BreakAlert] = None and Optional[VarianceDetail] = None
NoAlert == [kind |-> "None", nav_per_share_variance |-> 0,
            variance_relative |-> 0, variance_absolute |-> 0]

NoVariance == [kind |-> "None", component |-> "", variance_absolute |-> 0,
               variance_relative |-> 0, is_material |-> FALSE]

----------------------------------------------------------------------------
(* Generic helpers *)

Abs(x) == IF x < 0 THEN -x ELSE x

Max(a, b) == IF a >= b THEN a ELSE b

Min(a, b) == IF a <= b THEN a ELSE b

Range(s) == {s[i] : i \in 1..Len(s)}

Take(s, n) == SubSeq(s, 1, Min(Len(s), n))

RECURSIVE SumSeq(_)
SumSeq(s) == IF s = <<>> THEN 0 ELSE Head(s) + SumSeq(Tail(s))

Map(s, F(_)) == [i \in 1..Len(s) |-> F(s[i])]

NoDuplicates(s) == \A i, j \in 1..Len(s) : i # j => s[i] # s[j]

----------------------------------------------------------------------------
(* AgentFinding, AgentState *)

\* A description is a sequence of character codes; upper-case letters are
\* 65..90 and str.lower() moves them to 97..122.
Lower(c) == IF c >= 65 /\ c <= 90 THEN c + 32 ELSE c

NoEvidence == [trans_code |-> "", asset_id |-> ""]

create_finding(name, description, evidence, confidence, action, level) ==
    [agent_name |-> name,
     level |-> IF level = "" THEN name ELSE level,
     description |-> description,
     evidence |-> evidence,
     confidence |-> confidence,
     recommended_action |-> action]

AgentState ==
    [break_alert |-> NoAlert,
     phase |-> "INITIATED",
     current_agent |-> "",
     step_count |-> 0,
     nav_variance |-> NoVariance,
     primary_driver |-> "None",
     l0_findings |-> <<>>,
     gl_variances |-> <<>>,
     breaking_gl_buckets |-> <<>>,
     l1_findings |-> <<>>,
     position_variances |-> <<>>,
     breaking_positions |-> <<>>,
     l2_findings |-> <<>>,
     transaction_matches |-> <<>>,
     orphan_transactions |-> <<>>,
     amount_differences |-> <<>>,
     l3_findings |-> <<>>,
     specialist_findings |-> <<>>,
     specialists_invoked |-> <<>>,
     matched_patterns |-> <<>>,
     historical_similar_breaks |-> <<>>,
     pattern_findings |-> <<>>,
     all_findings |-> <<>>,
     root_causes |-> <<>>,
     overall_confidence |-> [num |-> 0, den |-> 1],
     should_escalate |-> FALSE,
     escalation_reasons |-> <<>>,
     root_cause_narrative |-> "",
     messages |-> <<>>,
     agent_trace |-> <<>>]

\* mutant: the finding is put at the front of all_findings
add_finding_at_front(s, finding) ==
    [s EXCEPT !.all_findings = <<finding>> \o @,
              !.step_count = @ + 1]

add_finding(s, finding) ==
    [s EXCEPT !.all_findings = Append(@, finding),
              !.step_count = @ + 1]

add_trace(s, agent, action) ==
    [s EXCEPT !.agent_trace = Append(@, <<agent, action>>)]

\* mutant: the bucket takes the finding at its front
Record_bucket_front(s, bucket, finding) ==
    add_finding([s EXCEPT ![bucket] = <<finding>> \o @], finding)

\* append to a per-level bucket, then add_finding
Record(s, bucket, finding) ==
    add_finding([s EXCEPT ![bucket] = Append(@, finding)], finding)

----------------------------------------------------------------------------
(* AgentState.check_escalation *)

Rational(n, d) == [num |-> n, den |-> d]

\* a < b on exact quotients with positive denominators
RatLess(a, b) == a.num * b.den < b.num * a.den

\* x < limit as the float comparison decides it; on an exact tie the
\* rounding of the operands decides, given by `tie`
FloatLess(x, limit, tie) == IF x = limit THEN tie ELSE x < limit

FloatGreater(x, limit, tie) == IF x = limit THEN tie ELSE x > limit

RECURSIVE InsertDesc(_, _)
InsertDesc(x, s) ==
    IF s = <<>> THEN <<x>>
    ELSE IF Head(s) >= x THEN <<Head(s)>> \o InsertDesc(x, Tail(s))
    ELSE <<x>> \o s

RECURSIVE SortDesc(_)
SortDesc(s) == IF s = <<>> THEN <<>> ELSE InsertDesc(Head(s), SortDesc(Tail(s)))

EscalationReason(type, threshold, actual) ==
    [reason_type |-> type, threshold_value |-> threshold, actual_value |-> actual]

\* mutant: the rule does not look at the phase
LowConfidenceRule_any_phase(s, confidence_threshold) ==
    /\ RatLess(s.overall_confidence, Rational(confidence_threshold, 100))
    /\ s.phase \in AnalysisPhase

LowConfidenceRule(s, confidence_threshold) ==
    /\ RatLess(s.overall_confidence, Rational(confidence_threshold, 100))
    /\ s.phase \notin {"INITIATED", "L0_NAV_ANALYSIS"}

CriticalMagnitudeRule(s, critical_nav_threshold) ==
    /\ s.break_alert.kind # "None"
    /\ Abs(s.break_alert.variance_relative) > critical_nav_threshold

NovelPatternRule(s) ==
    /\ s.matched_patterns = <<>>
    /\ s.phase \in {"PATTERN_MATCHING", "REPORT_GENERATION"}

ConflictingCausesRule(s, tie) ==
    /\ Len(s.root_causes) > 1
    /\ LET sorted_c == SortDesc(Map(s.root_causes, LAMBDA rc : rc.confidence))
       IN FloatLess(sorted_c[1] - sorted_c[2], CONFLICT_GAP, tie)

\* mutant: the rules are tried in order and the first that fires ends the check
FiredReasons_first_only(s, confidence_threshold, critical_nav_threshold, tie) ==
    IF LowConfidenceRule(s, confidence_threshold)
      THEN <<EscalationReason("LOW_CONFIDENCE",
                 <<Rational(confidence_threshold, 100)>>,
                 <<s.overall_confidence>>)>>
    ELSE IF CriticalMagnitudeRule(s, critical_nav_threshold)
      THEN <<EscalationReason("CRITICAL_MAGNITUDE",
                 <<Rational(critical_nav_threshold, 1000000)>>,
                 <<Rational(Abs(s.break_alert.variance_relative), 1000000)>>)>>
    ELSE IF NovelPatternRule(s)
      THEN <<EscalationReason("NOVEL_PATTERN", <<>>, <<>>)>>
    ELSE IF ConflictingCausesRule(s, tie)
      THEN <<EscalationReason("CONFLICTING_CAUSES", <<>>, <<>>)>>
    ELSE <<>>

FiredReasons(s, confidence_threshold, critical_nav_threshold, tie) ==
    (IF LowConfidenceRule(s, confidence_threshold)
       THEN <<EscalationReason("LOW_CONFIDENCE",
                  <<Rational(confidence_threshold, 100)>>,
                  <<s.overall_confidence>>)>>
       ELSE <<>>)
    \o
    (IF CriticalMagnitudeRule(s, critical_nav_threshold)
       THEN <<EscalationReason("CRITICAL_MAGNITUDE",
                  <<Rational(critical_nav_threshold, 1000000)>>,
                  <<Rational(Abs(s.break_alert.variance_relative), 1000000)>>)>>
       ELSE <<>>)
    \o
    (IF NovelPatternRule(s)
       THEN <<EscalationReason("NOVEL_PATTERN", <<>>, <<>>)>>
       ELSE <<>>)
    \o
    (IF ConflictingCausesRule(s, tie)
       THEN <<EscalationReason("CONFLICTING_CAUSES", <<>>, <<>>)>>
       ELSE <<>>)

\* mutant: the reasons are appended to the list already on the state
check_escalation_appending(s, confidence_threshold, critical_nav_threshold, tie) ==
    LET reasons == s.escalation_reasons
                   \o FiredReasons(s, confidence_threshold, critical_nav_threshold, tie)
    IN [s EXCEPT !.escalation_reasons = reasons,
                 !.should_escalate = Len(reasons) > 0]

check_escalation(s, confidence_threshold, critical_nav_threshold, tie) ==
    LET reasons == FiredReasons(s, confidence_threshold, critical_nav_threshold, tie)
    IN [s EXCEPT !.escalation_reasons = reasons,
                 !.should_escalate = Len(reasons) > 0]

----------------------------------------------------------------------------
(* SupervisorAgent *)

\* mutant: a finding is placed before the findings of equal confidence
RECURSIVE InsertByConfidence_before_equals(_, _)
InsertByConfidence_before_equals(f, s) ==
    IF s = <<>> THEN <<f>>
    ELSE IF Head(s).confidence > f.confidence
           THEN <<Head(s)>> \o InsertByConfidence_before_equals(f, Tail(s))
           ELSE <<f>> \o s

RECURSIVE InsertByConfidence(_, _)
InsertByConfidence(f, s) ==
    IF s = <<>> THEN <<f>>
    ELSE IF Head(s).confidence >= f.confidence
           THEN <<Head(s)>> \o InsertByConfidence(f, Tail(s))
           ELSE <<f>> \o s

\* sorted(all_findings, key=confidence, reverse=True): stable
RECURSIVE SortByConfidence(_)
SortByConfidence(fs) ==
    IF fs = <<>> THEN <<>>
    ELSE InsertByConfidence(fs[Len(fs)],
                            SortByConfidence(SubSeq(fs, 1, Len(fs) - 1)))

DescKey(description) == Map(Take(description, DESC_KEY_LEN), Lower)

RootCause(f) ==
    [agent |-> f.agent_name, level |-> f.level, description |-> f.description,
     confidence |-> f.confidence, evidence |-> f.evidence,
     recommended_action |-> f.recommended_action]

\* mutant: a finding of confidence exactly 0.60 is dropped
RECURSIVE CollectRootCauses_floor_exclusive(_, _, _)
CollectRootCauses_floor_exclusive(sorted_findings, seen_descriptions, root_causes) ==
    IF sorted_findings = <<>> THEN root_causes
    ELSE LET finding == Head(sorted_findings)
             desc_key == DescKey(finding.description)
         IN IF finding.confidence <= ROOT_CAUSE_FLOOR \/ desc_key \in seen_descriptions
              THEN CollectRootCauses_floor_exclusive(Tail(sorted_findings),
                                                     seen_descriptions, root_causes)
              ELSE CollectRootCauses_floor_exclusive(Tail(sorted_findings),
                                                     seen_descriptions \cup {desc_key},
                                                     Append(root_causes, RootCause(finding)))

RECURSIVE CollectRootCauses(_, _, _)
CollectRootCauses(sorted_findings, seen_descriptions, root_causes) ==
    IF sorted_findings = <<>> THEN root_causes
    ELSE LET finding == Head(sorted_findings)
             desc_key == DescKey(finding.description)
         IN IF finding.confidence < ROOT_CAUSE_FLOOR \/ desc_key \in seen_descriptions
              THEN CollectRootCauses(Tail(sorted_findings), seen_descriptions,
                                     root_causes)
              ELSE CollectRootCauses(Tail(sorted_findings),
                                     seen_descriptions \cup {desc_key},
                                     Append(root_causes, RootCause(finding)))

_aggregate_root_causes(s) ==
    Take(CollectRootCauses(SortByConfidence(s.all_findings), {}, <<>>),
         ROOT_CAUSE_LIMIT)

level_weights(level) ==
    CASE level = "L0_NAV" -> 10
      [] level = "L1_GL" -> 20
      [] level = "L2_SUBLEDGER" -> 25
      [] level = "L3_TRANSACTION" -> 25
      [] level = "SPECIALIST_PRICING" -> 15
      [] level = "SPECIALIST_CA" -> 15
      [] level = "SPECIALIST_ACCRUAL" -> 15
      [] level = "SPECIALIST_FX" -> 15
      [] level = "PATTERN_MATCH" -> 20
      [] OTHER -> DEFAULT_WEIGHT

\* weighted_confidence / total_weight, capped by min(.., 1.0)
_calculate_confidence(s) ==
    IF s.all_findings = <<>> THEN Rational(0, 1)
    ELSE LET weighted_confidence ==
               SumSeq(Map(s.all_findings,
                          LAMBDA f : f.confidence * level_weights(f.level)))
             total_weight ==
               SumSeq(Map(s.all_findings, LAMBDA f : level_weights(f.level)))
         IN IF total_weight = 0 THEN Rational(0, 1)
            ELSE IF weighted_confidence > 100 * total_weight THEN Rational(1, 1)
            ELSE Rational(weighted_confidence, 100 * total_weight)

_generate_narrative(s, llm_ok) ==
    IF s.root_causes = <<>> THEN "no_root_causes"
    ELSE IF llm_ok THEN "llm_narrative" ELSE "fallback_narrative"

_initialize_analysis(s) ==
    IF s.break_alert.kind = "None"
      THEN [add_trace(s, "Supervisor", "error") EXCEPT !.phase = "COMPLETED"]
      ELSE [add_trace(s, "Supervisor", "initializing")
              EXCEPT !.messages = Append(@, "dispatching_to_l0")]

\* mutant: the run completes whenever a root cause was found
_finalize_analysis_completes_on_cause(s, llm_ok, tie) ==
    LET s1 == add_trace([s EXCEPT !.phase = "REPORT_GENERATION"],
                        "Supervisor", "finalizing_analysis")
        s2 == [s1 EXCEPT !.root_causes = _aggregate_root_causes(s1)]
        s3 == [s2 EXCEPT !.overall_confidence = _calculate_confidence(s2)]
        s4 == [s3 EXCEPT !.root_cause_narrative = _generate_narrative(s3, llm_ok)]
        s5 == check_escalation(s4, CONFIDENCE_ESCALATION_THRESHOLD,
                               CRITICAL_BREAK_THRESHOLD, tie)
    IN IF s5.should_escalate /\ s5.root_causes = <<>>
         THEN [s5 EXCEPT !.phase = "ESCALATED",
                         !.messages = Append(@, "escalated")]
         ELSE [s5 EXCEPT !.phase = "COMPLETED",
                         !.messages = Append(@, "complete")]

_finalize_analysis(s, llm_ok, tie) ==
    LET s1 == add_trace([s EXCEPT !.phase = "REPORT_GENERATION"],
                        "Supervisor", "finalizing_analysis")
        s2 == [s1 EXCEPT !.root_causes = _aggregate_root_causes(s1)]
        s3 == [s2 EXCEPT !.overall_confidence = _calculate_confidence(s2)]
        s4 == [s3 EXCEPT !.root_cause_narrative = _generate_narrative(s3, llm_ok)]
        s5 == check_escalation(s4, CONFIDENCE_ESCALATION_THRESHOLD,
                               CRITICAL_BREAK_THRESHOLD, tie)
    IN IF s5.should_escalate
         THEN [s5 EXCEPT !.phase = "ESCALATED",
                         !.messages = Append(@, "escalated")]
         ELSE [s5 EXCEPT !.phase = "COMPLETED",
                         !.messages = Append(@, "complete")]

SupervisorAnalyze(s, llm_ok, tie) ==
    IF s.phase = "INITIATED" THEN _initialize_analysis(s)
    ELSE _finalize_analysis(s, llm_ok, tie)

\* BaseAgent.__call__ around an analyze that returned normally
Started(s, name) == add_trace([s EXCEPT !.current_agent = name], name, "started")

Completed(s, name) == add_trace(s, name, "completed")

----------------------------------------------------------------------------
(* L0NAVAgent *)

\* character codes used by the description templates
Digit(n) == 48 + n

CategoryCode(cat) ==
    CASE cat = "ASSET" -> 65
      [] cat = "EXPENSE" -> 69
      [] cat = "INCOME" -> 73
      [] cat = "EQUITY" -> 81
      [] OTHER -> 85

RaisedException == "RAISE"

CategoryTotal(nav_components, cat) ==
    SumSeq(Map(SelectSeq(nav_components, LAMBDA comp : comp.gl_category = cat),
               LAMBDA comp : comp.ending_balance))

\* a query that raises is caught and gives []  (ok = the query returned)
_fetch_nav_components(rows, ok) == IF ok THEN rows ELSE <<>>

\* llm is what llm_classify does: RaisedException, or the label it returns
_classify_break_driver(alert, nav_components, llm) ==
    IF nav_components = <<>>
      THEN IF llm = RaisedException THEN RaisedException
           ELSE IF llm \in BreakDriver THEN llm ELSE "MULTI_FACTOR"
      ELSE IF 2 * Abs(CategoryTotal(nav_components, "INCOME")) > Abs(alert.variance_absolute)
             THEN "INCOME_DRIVEN"
      ELSE IF 2 * Abs(CategoryTotal(nav_components, "EXPENSE")) > Abs(alert.variance_absolute)
             THEN "EXPENSE_DRIVEN"
      ELSE IF 2 * Abs(CategoryTotal(nav_components, "ASSET")) > Abs(alert.variance_absolute)
             THEN "POSITION_DRIVEN"
      ELSE IF 2 * Abs(CategoryTotal(nav_components, "EQUITY")) > Abs(alert.variance_absolute)
             THEN "CAPITAL_ACTIVITY_DRIVEN"
      ELSE "MULTI_FACTOR"

\* mutant: materiality tested with >= instead of >
NavVarianceDetail_inclusive(alert) ==
    [kind |-> "VarianceDetail",
     component |-> "NAV",
     variance_absolute |-> alert.variance_absolute,
     variance_relative |-> alert.variance_relative,
     is_material |-> Abs(alert.nav_per_share_variance) >= MATERIALITY_THRESHOLD_ABSOLUTE]

NavVarianceDetail(alert) ==
    [kind |-> "VarianceDetail",
     component |-> "NAV",
     variance_absolute |-> alert.variance_absolute,
     variance_relative |-> alert.variance_relative,
     is_material |-> Abs(alert.nav_per_share_variance) > MATERIALITY_THRESHOLD_ABSOLUTE]

\* the state when _classify_break_driver raises inside analyze
L0Raised(s) ==
    [s EXCEPT !.phase = "L0_NAV_ANALYSIS",
              !.nav_variance = NavVarianceDetail(s.break_alert)]

L0Analyze(s, nav_components, llm) ==
    LET s1 == [s EXCEPT !.phase = "L0_NAV_ANALYSIS"]
        alert == s.break_alert
    IN IF alert.kind = "None" THEN s1
       ELSE LET driver == _classify_break_driver(alert, nav_components, llm)
                finding == create_finding("L0_NAV_Agent", <<78>>, NoEvidence, 95,
                                          "Dispatch to L1 GL Agent", "L0_NAV")
            IN Record([s1 EXCEPT !.nav_variance = NavVarianceDetail(alert),
                                 !.primary_driver = driver],
                      "l0_findings", finding)

----------------------------------------------------------------------------
(* L1GLAgent *)

_fetch_gl_balances(rows, ok) == IF ok THEN rows ELSE <<>>

\* sorted(all_categories): the category names in alphabetical order
SortedCategories == <<"ASSET", "EQUITY", "EXPENSE", "INCOME">>

\* dict built from the rows: the last row of a category wins, absent -> 0.0
ByCategory(rows, cat) ==
    LET hits == SelectSeq(rows, LAMBDA r : r.gl_category = cat)
    IN IF hits = <<>> THEN 0 ELSE hits[Len(hits)].total_balance

HasCategory(rows, cat) == \E i \in 1..Len(rows) : rows[i].gl_category = cat

GLVariance(cpu_gl, incumbent_gl, cat) ==
    LET cpu_val == ByCategory(cpu_gl, cat)
        inc_val == ByCategory(incumbent_gl, cat)
    IN [kind |-> "VarianceDetail",
        component |-> cat,
        cpu_value |-> cpu_val,
        incumbent_value |-> inc_val,
        variance_absolute |-> cpu_val - inc_val,
        is_material |-> Abs(cpu_val - inc_val) > GL_MATERIALITY]

_calculate_gl_variances(cpu_gl, incumbent_gl) ==
    Map(SelectSeq(SortedCategories,
                  LAMBDA cat : HasCategory(cpu_gl, cat) \/ HasCategory(incumbent_gl, cat)),
        LAMBDA cat : GLVariance(cpu_gl, incumbent_gl, cat))

RECURSIVE RecordAll(_, _, _)
RecordAll(s, bucket, findings) ==
    IF findings = <<>> THEN s
    ELSE RecordAll(Record(s, bucket, Head(findings)), bucket, Tail(findings))

L1Analyze(s, cpu_gl, incumbent_gl) ==
    LET s1 == [s EXCEPT !.phase = "L1_GL_ANALYSIS"]
    IN IF s.break_alert.kind = "None" THEN s1
       ELSE LET gl_variances == _calculate_gl_variances(cpu_gl, incumbent_gl)
                material == SelectSeq(gl_variances, LAMBDA v : v.is_material)
                breaking_buckets == Map(material, LAMBDA v : v.component)
                findings ==
                  Map(material,
                      LAMBDA v : create_finding("L1_GL_Agent",
                                     <<71, CategoryCode(v.component)>>,
                                     NoEvidence, 90,
                                     "Drill into sub-ledger positions", "L1_GL"))
                summary == create_finding("L1_GL_Agent",
                               <<68, Digit(Len(breaking_buckets)), Digit(Len(gl_variances))>>,
                               NoEvidence, 90,
                               "Dispatch to L2 Sub-Ledger Agent", "L1_GL")
            IN Record(RecordAll([s1 EXCEPT !.gl_variances = gl_variances,
                                           !.breaking_gl_buckets = breaking_buckets],
                                "l1_findings", findings),
                      "l1_findings", summary)

----------------------------------------------------------------------------
(* L2SubLedgerAgent *)

_fetch_positions(rows, ok) == IF ok THEN rows ELSE <<>>

\* incumbent_value is a copy of the CPU value: no position is ever material
_compare_positions(positions) ==
    Map(positions,
        LAMBDA pos : [kind |-> "VarianceDetail",
                      component |-> pos.asset_id,
                      cpu_value |-> pos.pos_market_value_base,
                      incumbent_value |-> pos.pos_market_value_base,
                      variance_absolute |-> 0,
                      is_material |-> FALSE])

BreakingPosition(v) ==
    [asset_id |-> v.component,
     variance_absolute |-> v.variance_absolute,
     cpu_value |-> v.cpu_value,
     incumbent_value |-> v.incumbent_value]

\* mutant: a position valued below the incumbent asks for the accrual specialist
_analyze_position_accrual_when_below(pos, llm_ok) ==
    [confidence |-> IF llm_ok THEN 75 ELSE 60,
     action |-> "Dispatch to L3 Transaction Agent",
     specialist_needed |-> IF pos.variance_absolute > 0 THEN "PricingAgent"
                           ELSE IF pos.variance_absolute < 0 THEN "AccrualAgent"
                           ELSE "None"]

_analyze_position(pos, llm_ok) ==
    [confidence |-> IF llm_ok THEN 75 ELSE 60,
     action |-> "Dispatch to L3 Transaction Agent",
     specialist_needed |-> IF pos.variance_absolute # 0 THEN "PricingAgent" ELSE "None"]

AssetCode(asset_id) ==
    CASE asset_id = "" -> 48
      [] asset_id = "A1" -> 49
      [] asset_id = "B2" -> 50
      [] OTHER -> 51

RECURSIVE L2Positions(_, _, _)
L2Positions(s, breaking, llm_ok) ==
    IF breaking = <<>> THEN s
    ELSE LET pos == Head(breaking)
             analysis == _analyze_position(pos, llm_ok)
             finding == create_finding("L2_SubLedger_Agent",
                            <<80, AssetCode(pos.asset_id)>>,
                            [trans_code |-> "", asset_id |-> pos.asset_id],
                            analysis.confidence, analysis.action, "L2_SUBLEDGER")
             s1 == Record(s, "l2_findings", finding)
             specialist == analysis.specialist_needed
             s2 == IF specialist # "None" /\ specialist \notin Range(s1.specialists_invoked)
                     THEN [s1 EXCEPT !.specialists_invoked = Append(@, specialist)]
                     ELSE s1
         IN L2Positions(s2, Tail(breaking), llm_ok)

\* analyze after the positions have been compared
L2AnalyzeCompared(s, positions, position_variances, llm_ok) ==
    LET breaking == Map(SelectSeq(position_variances, LAMBDA v : v.is_material),
                        BreakingPosition)
        s1 == L2Positions([s EXCEPT !.position_variances = position_variances,
                                    !.breaking_positions = breaking],
                          breaking, llm_ok)
        summary == create_finding("L2_SubLedger_Agent",
                       <<83, Digit(Len(positions)), Digit(Len(breaking)),
                         Digit(Len(s1.specialists_invoked))>>,
                       NoEvidence, 85,
                       "Dispatch to L3 and/or Specialist Agents", "L2_SUBLEDGER")
    IN Record(s1, "l2_findings", summary)

L2Analyze(s, positions, llm_ok) ==
    LET s1 == [s EXCEPT !.phase = "L2_SUBLEDGER_ANALYSIS"]
    IN IF s.break_alert.kind = "None" THEN s1
       ELSE L2AnalyzeCompared(s1, positions, _compare_positions(positions), llm_ok)

----------------------------------------------------------------------------
(* L3TransactionAgent *)

CA_CODES == {"SPLIT", "SPINOFF", "CALL", "MAT", "MERGER"}

_fetch_transactions(rows, ok) == IF ok THEN rows ELSE <<>>

\* mutant: the trade dates are not compared
_fuzzy_match_any_date(txn1, txn2, tie) ==
    IF txn1.trans_code # txn2.trans_code THEN FALSE
    ELSE IF FloatGreater(1000 * Abs(txn1.amount_base - txn2.amount_base),
                         Max(Abs(txn1.amount_base), 100000), tie) THEN FALSE
    ELSE TRUE

\* abs(amt1 - amt2) > max(abs(amt1) * 0.001, 1.0) rejects the pair
_fuzzy_match(txn1, txn2, tie) ==
    IF txn1.trans_code # txn2.trans_code THEN FALSE
    ELSE IF txn1.trade_date # txn2.trade_date THEN FALSE
    ELSE IF FloatGreater(1000 * Abs(txn1.amount_base - txn2.amount_base),
                         Max(Abs(txn1.amount_base), 100000), tie) THEN FALSE
    ELSE TRUE

MatchRecord(txn, inc_txn) ==
    [transaction_id |-> txn.transaction_id,
     trans_code |-> txn.trans_code,
     trade_date |-> txn.trade_date,
     cpu_amount |-> txn.amount_base,
     incumbent_amount |-> inc_txn.amount_base]

\* match_record["difference"] = diff
DiffRecord(match_record) ==
    [transaction_id |-> match_record.transaction_id,
     trans_code |-> match_record.trans_code,
     trade_date |-> match_record.trade_date,
     cpu_amount |-> match_record.cpu_amount,
     incumbent_amount |-> match_record.incumbent_amount,
     difference |-> match_record.cpu_amount - match_record.incumbent_amount]

OrphanRecord(txn) ==
    [transaction_id |-> txn.transaction_id,
     trans_code |-> txn.trans_code,
     trade_date |-> txn.trade_date,
     amount_base |-> txn.amount_base,
     system |-> "CPU"]

NoMatches == [matches |-> <<>>, orphans |-> <<>>, diffs |-> <<>>]

\* mutant: the inner loop without its break
RECURSIVE ScanIncumbent_no_break(_, _, _, _, _)
ScanIncumbent_no_break(txn, incumbent, i, tie, acc) ==
    IF i > Len(incumbent)
      THEN IF \E j \in 1..Len(incumbent) : _fuzzy_match(txn, incumbent[j], tie)
             THEN acc
             ELSE [acc EXCEPT !.orphans = Append(@, OrphanRecord(txn))]
    ELSE IF _fuzzy_match(txn, incumbent[i], tie)
      THEN LET match_record == MatchRecord(txn, incumbent[i])
               diff == match_record.cpu_amount - match_record.incumbent_amount
           IN ScanIncumbent_no_break(txn, incumbent, i + 1, tie,
                  IF FloatGreater(Abs(diff), 1, tie)
                    THEN [acc EXCEPT !.diffs = Append(@, DiffRecord(match_record))]
                    ELSE [acc EXCEPT !.matches = Append(@, match_record)])
    ELSE ScanIncumbent_no_break(txn, incumbent, i + 1, tie, acc)

\* the inner loop: scan the incumbent list from position i, stop at the
\* first fuzzy match
RECURSIVE ScanIncumbent(_, _, _, _, _)
ScanIncumbent(txn, incumbent, i, tie, acc) ==
    IF i > Len(incumbent)
      THEN [acc EXCEPT !.orphans = Append(@, OrphanRecord(txn))]
    ELSE IF _fuzzy_match(txn, incumbent[i], tie)
      THEN LET match_record == MatchRecord(txn, incumbent[i])
               diff == match_record.cpu_amount - match_record.incumbent_amount
           IN IF FloatGreater(Abs(diff), 1, tie)
                THEN [acc EXCEPT !.diffs = Append(@, DiffRecord(match_record))]
                ELSE [acc EXCEPT !.matches = Append(@, match_record)]
    ELSE ScanIncumbent(txn, incumbent, i + 1, tie, acc)

\* mutant: an incumbent transaction that satisfied a CPU transaction is
\* taken out of the candidates of the later ones
RECURSIVE MatchAgainst_consuming(_, _, _, _)
MatchAgainst_consuming(cpu, incumbent, tie, acc) ==
    IF cpu = <<>> THEN acc
    ELSE MatchAgainst_consuming(
             Tail(cpu),
             SelectSeq(incumbent, LAMBDA t : ~_fuzzy_match(Head(cpu), t, tie)),
             tie, ScanIncumbent(Head(cpu), incumbent, 1, tie, acc))

\* the outer loop over cpu_txns
RECURSIVE MatchAgainst(_, _, _, _)
MatchAgainst(cpu, incumbent, tie, acc) ==
    IF cpu = <<>> THEN acc
    ELSE MatchAgainst(Tail(cpu), incumbent, tie,
                      ScanIncumbent(Head(cpu), incumbent, 1, tie, acc))

\* incumbent_txns = []  (placeholder split in the source)
_match_transactions(transactions, tie) ==
    MatchAgainst(transactions, <<>>, tie, NoMatches)

_recommend_orphan_action(orphan) ==
    IF orphan.trans_code \in {"DIV", "INT"}
      THEN "Check income event timing - likely booking date difference"
    ELSE IF orphan.trans_code \in {"BUY", "SELL"}
      THEN "Verify trade feed completeness - may be missing from incumbent"
    ELSE IF orphan.trans_code \in {"SPLIT", "SPINOFF", "CALL", "MAT"}
      THEN "Invoke Corporate Action Agent - CA processing difference likely"
    ELSE "Manual investigation required"

_recommend_diff_action(diff) ==
    IF diff.trans_code \in {"DIV", "INT"}
      THEN "Invoke Accrual Agent - check rate/day count inputs"
    ELSE IF diff.trans_code \in {"BUY", "SELL"}
      THEN "Check pricing and FX rates at time of trade"
    ELSE "Compare transaction details field by field"

\* code 67 ("C") stands for the words "Corporate action" of the description
_check_corporate_actions(asset_id, transactions) ==
    Map(SelectSeq(transactions, LAMBDA t : t.trans_code \in CA_CODES),
        LAMBDA txn : create_finding("L3_Transaction_Agent",
                         <<67, AssetCode(asset_id), Digit(txn.transaction_id)>>,
                         [trans_code |-> txn.trans_code, asset_id |-> ""],
                         70, "Invoke Corporate Action Specialist Agent",
                         "L3_TRANSACTION"))

OrphanFinding(orphan, asset_id) ==
    create_finding("L3_Transaction_Agent",
        <<79, Digit(orphan.transaction_id), AssetCode(asset_id)>>,
        [trans_code |-> orphan.trans_code, asset_id |-> ""],
        90, _recommend_orphan_action(orphan), "L3_TRANSACTION")

DiffFinding(diff) ==
    create_finding("L3_Transaction_Agent",
        <<77, Digit(diff.transaction_id)>>,
        [trans_code |-> diff.trans_code, asset_id |-> ""],
        85, _recommend_diff_action(diff), "L3_TRANSACTION")

\* one iteration of the loop over state.breaking_positions
L3Position(s, pos, transactions, tie) ==
    IF pos.asset_id = "" THEN s
    ELSE LET m == _match_transactions(transactions, tie)
             s1 == [s EXCEPT !.transaction_matches = @ \o m.matches,
                             !.orphan_transactions = @ \o m.orphans,
                             !.amount_differences = @ \o m.diffs]
             s2 == RecordAll(s1, "l3_findings",
                             Map(m.orphans, LAMBDA o : OrphanFinding(o, pos.asset_id)))
             s3 == RecordAll(s2, "l3_findings", Map(m.diffs, DiffFinding))
             ca_findings == _check_corporate_actions(pos.asset_id, transactions)
         IN IF ca_findings # <<>>
              THEN RecordAll([s3 EXCEPT !.specialists_invoked =
                                            Append(@, "CorporateActionAgent")],
                             "l3_findings", ca_findings)
              ELSE s3

RECURSIVE L3Positions(_, _, _, _)
L3Positions(s, i, fetched, tie) ==
    IF i > Len(s.breaking_positions) THEN s
    ELSE L3Positions(L3Position(s, s.breaking_positions[i], fetched[i], tie),
                     i + 1, fetched, tie)

\* fetched[i] is what _fetch_transactions returns for the i-th position
L3Analyze(s, fetched, tie) ==
    LET s1 == [s EXCEPT !.phase = "L3_TRANSACTION_ANALYSIS"]
    IN IF s.break_alert.kind = "None" THEN s1
       ELSE LET s2 == L3Positions(s1, 1, fetched, tie)
                summary == create_finding("L3_Transaction_Agent",
                               <<84, Digit(Len(s2.transaction_matches)),
                                 Digit(Len(s2.orphan_transactions)),
                                 Digit(Len(s2.amount_differences))>>,
                               NoEvidence, 85,
                               "Dispatch to Pattern Agent for historical matching",
                               "L3_TRANSACTION")
            IN Record(s2, "l3_findings", summary)

----------------------------------------------------------------------------
(* Specialist agents *)

RECURSIVE PricingPositions(_, _, _)
PricingPositions(s, positions, llm_ok) ==
    IF positions = <<>> THEN s
    ELSE LET pos == Head(positions)
             finding == create_finding("PricingAgent",
                            <<112, AssetCode(pos.asset_id)>>,
                            [trans_code |-> "", asset_id |-> pos.asset_id],
                            IF llm_ok THEN 80 ELSE 65,
                            IF llm_ok THEN "Verify pricing sources and snap times between systems"
                                      ELSE "Manual pricing source comparison required",
                            "SPECIALIST_PRICING")
         IN PricingPositions(Record(s, "specialist_findings", finding),
                             Tail(positions), llm_ok)

\* mutant: pricing is skipped once another specialist has reported
PricingAnalyze_unless_reported(s, llm_ok) ==
    PricingPositions(add_trace(s, "PricingAgent", "analyzing_pricing_variances"),
                     IF s.specialist_findings = <<>> THEN s.breaking_positions
                     ELSE <<>>, llm_ok)

PricingAnalyze(s, llm_ok) ==
    PricingPositions(add_trace(s, "PricingAgent", "analyzing_pricing_variances"),
                     s.breaking_positions, llm_ok)

\* "corporate action" in f.description.lower()
MentionsCorporateAction(description) ==
    \E i \in 1..Len(description) : Lower(description[i]) = 99

RECURSIVE CAFindings(_, _, _)
CAFindings(s, ca_findings, llm_ok) ==
    IF ca_findings = <<>> THEN s
    ELSE LET ca_finding == Head(ca_findings)
             finding == create_finding("CorporateActionAgent",
                            <<118, AssetCode(ca_finding.evidence.asset_id)>>,
                            [trans_code |-> ca_finding.evidence.trans_code,
                             asset_id |-> ca_finding.evidence.asset_id],
                            IF llm_ok THEN 75 ELSE 50,
                            IF llm_ok THEN "Compare CA processing parameters between systems"
                                      ELSE "Manual CA event comparison required",
                            "SPECIALIST_CA")
         IN CAFindings(Record(s, "specialist_findings", finding),
                       Tail(ca_findings), llm_ok)

CorporateActionAnalyze(s, llm_ok) ==
    CAFindings(add_trace(s, "CorporateActionAgent", "analyzing_corporate_actions"),
               SelectSeq(s.l3_findings,
                         LAMBDA f : \/ MentionsCorporateAction(f.description)
                                    \/ f.evidence.trans_code \in CA_CODES),
               llm_ok)

_find_accrual_positions(s) ==
    SelectSeq(s.breaking_positions,
              LAMBDA pos : s.primary_driver \in {"INCOME_DRIVEN", "MULTI_FACTOR"})

RECURSIVE AccrualPositions(_, _, _)
AccrualPositions(s, positions, llm_ok) ==
    IF positions = <<>> THEN s
    ELSE LET pos == Head(positions)
             finding == create_finding("AccrualAgent",
                            <<97, AssetCode(pos.asset_id)>>,
                            [trans_code |-> "", asset_id |-> pos.asset_id],
                            IF llm_ok THEN 85 ELSE 60,
                            IF llm_ok THEN "Verify day count convention in ElectronDSL configuration"
                                      ELSE "Manual accrual parameter comparison required",
                            "SPECIALIST_ACCRUAL")
         IN AccrualPositions(Record(s, "specialist_findings", finding),
                             Tail(positions), llm_ok)

AccrualAnalyze(s, llm_ok) ==
    LET s1 == add_trace(s, "AccrualAgent", "analyzing_accrual_variances")
    IN IF s.break_alert.kind = "None" THEN s1
       ELSE AccrualPositions(s1, _find_accrual_positions(s1), llm_ok)

_find_fx_positions(s) ==
    SelectSeq(s.breaking_positions, LAMBDA pos : pos.variance_absolute # 0)

RECURSIVE FXPositions(_, _, _)
FXPositions(s, positions, llm_ok) ==
    IF positions = <<>> THEN s
    ELSE LET pos == Head(positions)
             finding == create_finding("FXAgent",
                            <<102, AssetCode(pos.asset_id)>>,
                            [trans_code |-> "", asset_id |-> pos.asset_id],
                            IF llm_ok THEN 75 ELSE 55,
                            IF llm_ok THEN "Compare FX rate sources and snap times"
                                      ELSE "Manual FX rate comparison required",
                            "SPECIALIST_FX")
         IN FXPositions(Record(s, "specialist_findings", finding),
                        Tail(positions), llm_ok)

FXAnalyze(s, llm_ok) ==
    LET s1 == add_trace(s, "FXAgent", "analyzing_fx_variances")
    IN IF s.break_alert.kind = "None" THEN s1
       ELSE FXPositions(s1, _find_fx_positions(s1), llm_ok)

----------------------------------------------------------------------------
(* PatternAgent *)

\* llm_classify on the joined descriptions; any exception gives "DATA"
_determine_category(s, llm) == IF llm = RaisedException THEN "DATA" ELSE llm

\* Neo4jClient.pattern_match: the BreakPattern nodes of the category
pattern_match(break_category, patterns) ==
    SelectSeq(patterns, LAMBDA bp : bp.break_category = break_category)

PatternDict(bp) ==
    [pattern_name |-> bp.pattern_name, avg_confidence |-> bp.avg_confidence]

_search_patterns(break_category, patterns, ok) ==
    IF ok THEN Map(pattern_match(break_category, patterns), PatternDict) ELSE <<>>

_find_similar_breaks(s, rows, ok) ==
    IF s.break_alert.kind = "None" THEN <<>>
    ELSE IF ok THEN rows ELSE <<>>

PatternFinding(pattern) ==
    create_finding("PatternAgent",
        <<72, pattern.pattern_name>>,
        NoEvidence, pattern.avg_confidence,
        "Apply known resolution", "PATTERN_MATCH")

\* mutant: nothing is reported when no pattern and no similar break is found
PatternAnalyze_silent_on_novel(s, matched_patterns, similar_breaks) ==
    LET s1 == add_trace([s EXCEPT !.phase = "PATTERN_MATCHING"],
                        "PatternAgent", "matching_historical_patterns")
    IN IF s.break_alert.kind = "None" THEN s1
       ELSE LET s2 == RecordAll([s1 EXCEPT !.matched_patterns = matched_patterns,
                                           !.historical_similar_breaks = similar_breaks],
                                "pattern_findings",
                                Map(matched_patterns, PatternFinding))
            IN IF similar_breaks # <<>>
                 THEN Record(s2, "pattern_findings",
                          create_finding("PatternAgent",
                              <<70, Digit(Len(similar_breaks))>>, NoEvidence, 80,
                              "Review similar break resolutions for guidance",
                              "PATTERN_MATCH"))
                 ELSE s2

PatternAnalyze(s, matched_patterns, similar_breaks) ==
    LET s1 == add_trace([s EXCEPT !.phase = "PATTERN_MATCHING"],
                        "PatternAgent", "matching_historical_patterns")
    IN IF s.break_alert.kind = "None" THEN s1
       ELSE LET s2 == RecordAll([s1 EXCEPT !.matched_patterns = matched_patterns,
                                           !.historical_similar_breaks = similar_breaks],
                                "pattern_findings",
                                Map(matched_patterns, PatternFinding))
                s3 == IF similar_breaks # <<>>
                        THEN Record(s2, "pattern_findings",
                                 create_finding("PatternAgent",
                                     <<70, Digit(Len(similar_breaks))>>, NoEvidence, 80,
                                     "Review similar break resolutions for guidance",
                                     "PATTERN_MATCH"))
                        ELSE s2
            IN IF matched_patterns = <<>> /\ similar_breaks = <<>>
                 THEN Record(s3, "pattern_findings",
                          create_finding("PatternAgent", <<110>>, NoEvidence, 50,
                              "Escalate to human analyst for novel pattern investigation",
                              "PATTERN_MATCH"))
                 ELSE s3

----------------------------------------------------------------------------
(* workflow.py: routing functions *)

should_continue_to_l1(s) ==
    IF s.nav_variance.kind = "None" \/ ~s.nav_variance.is_material
      THEN "supervisor_finalize" ELSE "l1_gl"

\* mutant: the edge looks at gl_variances instead of breaking_gl_buckets
should_continue_to_l2_any_variance(s) ==
    IF s.gl_variances = <<>> THEN "pattern_match" ELSE "l2_subledger"

should_continue_to_l2(s) ==
    IF s.breaking_gl_buckets = <<>> THEN "pattern_match" ELSE "l2_subledger"

should_continue_to_l3(s) ==
    IF s.breaking_positions = <<>>
      THEN IF s.specialists_invoked # <<>> THEN "specialist_router"
           ELSE "pattern_match"
      ELSE "l3_transaction"

\* mutant: the edge after L3 always goes to pattern_match
should_invoke_specialists_never(s) ==
    IF s.specialists_invoked # s.specialists_invoked THEN "specialist_router"
    ELSE "pattern_match"

should_invoke_specialists(s) ==
    IF s.specialists_invoked # <<>> THEN "specialist_router" ELSE "pattern_match"

----------------------------------------------------------------------------
(* What the collaborators may return *)

Alerts ==
    {[kind |-> "BreakAlert", nav_per_share_variance |-> nps,
      variance_relative |-> rel, variance_absolute |-> -24500] :
        nps \in {245, 500, -600}, rel \in {-120, -1200}}

NavComponentResults ==
    {<<>>,
     <<[gl_category |-> "INCOME", ending_balance |-> 20000]>>,
     <<[gl_category |-> "ASSET", ending_balance |-> 5000],
       [gl_category |-> "EXPENSE", ending_balance |-> -13000]>>,
     <<[gl_category |-> "ASSET", ending_balance |-> 20000]>>,
     <<[gl_category |-> "EQUITY", ending_balance |-> -15000]>>,
     <<[gl_category |-> "ASSET", ending_balance |-> 100]>>}

LLMClassifyResults == {RaisedException, "EXPENSE_DRIVEN", "not a label"}

GLBalanceResults ==
    {<<>>,
     <<[gl_category |-> "ASSET", total_balance |-> 5000000]>>,
     <<[gl_category |-> "ASSET", total_balance |-> 5000500],
       [gl_category |-> "INCOME", total_balance |-> 132000]>>,
     <<[gl_category |-> "ASSET", total_balance |-> 5002000],
       [gl_category |-> "INCOME", total_balance |-> 150000]>>}

PositionResults ==
    {<<>>,
     <<[asset_id |-> "A1", pos_market_value_base |-> 50000]>>,
     <<[asset_id |-> "A1", pos_market_value_base |-> 50000],
       [asset_id |-> "B2", pos_market_value_base |-> 7000]>>}

\* BreakPattern nodes of the graph; avg_confidence is an unconstrained
\* Numeric(5,4)
BreakPatterns ==
    {[pattern_name |-> 65, avg_confidence |-> 90, break_category |-> "TIMING"],
     [pattern_name |-> 97, avg_confidence |-> 70, break_category |-> "DATA"],
     [pattern_name |-> 66, avg_confidence |-> -200, break_category |-> "DATA"],
     [pattern_name |-> 67, avg_confidence |-> 150, break_category |-> "TIMING"]}

PatternRows == {PatternDict(bp) : bp \in BreakPatterns}

SeqsUpTo(S, n) == UNION {[1..k -> S] : k \in 0..n}

\* what the pattern query finds in the graph, in its ORDER BY order
PatternResults == SeqsUpTo(BreakPatterns, MaxPatterns)

PatternCategoryResults == {RaisedException, "TIMING", "not a label"}

SimilarBreakResults == {<<>>, <<"BRK-1">>}

\* what each fetch hands to its stage, failures included
NavComponentFetches ==
    {_fetch_nav_components(rows, ok) : rows \in NavComponentResults, ok \in BOOLEAN}

GLBalanceFetches ==
    {_fetch_gl_balances(rows, ok) : rows \in GLBalanceResults, ok \in BOOLEAN}

PositionFetches ==
    {_fetch_positions(rows, ok) : rows \in PositionResults, ok \in BOOLEAN}

PatternSearches(s) ==
    {_search_patterns(_determine_category(s, llm), patterns, ok) :
        llm \in PatternCategoryResults, patterns \in PatternResults, ok \in BOOLEAN}

SimilarBreakFetches(s) ==
    {_find_similar_breaks(s, rows, ok) : rows \in SimilarBreakResults, ok \in BOOLEAN}

Txn(id, code, date, amount) ==
    [transaction_id |-> id, trans_code |-> code, trade_date |-> date,
     amount_base |-> amount]

\* rows of data_daily_transactions for one asset, ORDER BY trade_date, trans_code
TransactionResults ==
    {<<>>,
     <<Txn(1, "DIV", 1, 100000)>>,
     <<Txn(2, "SPLIT", 1, 0)>>,
     <<Txn(3, "BUY", 1, 250000), Txn(4, "MERGER", 2, 0)>>,
     <<Txn(5, "FEE", 2, 1200)>>}

TransactionFetches ==
    {_fetch_transactions(rows, ok) : rows \in TransactionResults, ok \in BOOLEAN}

SpecialistNames == {"PricingAgent", "CorporateActionAgent", "AccrualAgent", "FXAgent"}

----------------------------------------------------------------------------
(* workflow.py: the nodes of the graph, each followed by its outgoing edge *)

HarnessIdle ==
    /\ cpu_txns = <<>>
    /\ incumbent_txns = <<>>
    /\ match_result = NoMatches

HarnessUnchanged == UNCHANGED <<cpu_txns, incumbent_txns, match_result>>

SupervisorInitNode ==
    /\ pc = "supervisor_init"
    /\ LET s0 == [state EXCEPT !.phase = "INITIATED"]
       IN state' = Completed(SupervisorAnalyze(Started(s0, "Supervisor"), TRUE, FALSE),
                             "Supervisor")
    /\ pc' = "l0_nav"
    /\ HarnessUnchanged

L0Node ==
    /\ pc = "l0_nav"
    /\ \E nav_components \in NavComponentFetches, llm \in LLMClassifyResults :
          /\ \/ state.break_alert.kind = "None"
             \/ _classify_break_driver(state.break_alert, nav_components, llm)
                    # RaisedException
          /\ state' = Completed(L0Analyze(Started(state, "L0_NAV_Agent"),
                                          nav_components, llm),
                                "L0_NAV_Agent")
    /\ pc' = should_continue_to_l1(state')
    /\ HarnessUnchanged

\* llm_classify raises inside L0NAVAgent.analyze: nothing catches it, the
\* exception leaves app.invoke and run_reconciliation_analysis
L0NodeRaises ==
    /\ pc = "l0_nav"
    /\ state.break_alert.kind # "None"
    /\ \E nav_components \in NavComponentFetches, llm \in LLMClassifyResults :
          _classify_break_driver(state.break_alert, nav_components, llm)
              = RaisedException
    /\ state' = L0Raised(Started(state, "L0_NAV_Agent"))
    /\ pc' = "raised"
    /\ HarnessUnchanged

L1Node ==
    /\ pc = "l1_gl"
    /\ \E cpu_gl \in GLBalanceFetches, incumbent_gl \in GLBalanceFetches :
          state' = Completed(L1Analyze(Started(state, "L1_GL_Agent"),
                                       cpu_gl, incumbent_gl),
                             "L1_GL_Agent")
    /\ pc' = should_continue_to_l2(state')
    /\ HarnessUnchanged

L2Node ==
    /\ pc = "l2_subledger"
    /\ \E positions \in PositionFetches, llm_ok \in BOOLEAN :
          state' = Completed(L2Analyze(Started(state, "L2_SubLedger_Agent"),
                                       positions, llm_ok),
                             "L2_SubLedger_Agent")
    /\ pc' = should_continue_to_l3(state')
    /\ HarnessUnchanged

L3Node ==
    /\ pc = "l3_transaction"
    /\ \E fetched \in [1..Len(state.breaking_positions) -> TransactionFetches],
          tie \in BOOLEAN :
          state' = Completed(L3Analyze(Started(state, "L3_Transaction_Agent"),
                                       fetched, tie),
                             "L3_Transaction_Agent")
    /\ pc' = should_invoke_specialists(state')
    /\ HarnessUnchanged

CallSpecialist(s, specialist_name, llm_ok) ==
    IF specialist_name = "PricingAgent"
      THEN Completed(PricingAnalyze(Started(s, specialist_name), llm_ok), specialist_name)
    ELSE IF specialist_name = "CorporateActionAgent"
      THEN Completed(CorporateActionAnalyze(Started(s, specialist_name), llm_ok),
                     specialist_name)
    ELSE IF specialist_name = "AccrualAgent"
      THEN Completed(AccrualAnalyze(Started(s, specialist_name), llm_ok), specialist_name)
    ELSE IF specialist_name = "FXAgent"
      THEN Completed(FXAnalyze(Started(s, specialist_name), llm_ok), specialist_name)
    ELSE s

RECURSIVE RunSpecialists(_, _, _)
RunSpecialists(s, worklist, llm) ==
    IF worklist = <<>> THEN s
    ELSE RunSpecialists(CallSpecialist(s, Head(worklist), llm[Head(worklist)]),
                        Tail(worklist), llm)

SpecialistRouterNode ==
    /\ pc = "specialist_router"
    /\ \E llm \in [SpecialistNames -> BOOLEAN] :
          state' = RunSpecialists([state EXCEPT !.phase = "SPECIALIST_ANALYSIS"],
                                  state.specialists_invoked, llm)
    /\ pc' = "pattern_match"
    /\ HarnessUnchanged

PatternMatchNode ==
    /\ pc = "pattern_match"
    /\ \E matched_patterns \in PatternSearches(state),
          similar_breaks \in SimilarBreakFetches(state) :
          state' = Completed(PatternAnalyze(Started(state, "PatternAgent"),
                                            matched_patterns, similar_breaks),
                             "PatternAgent")
    /\ pc' = "supervisor_finalize"
    /\ HarnessUnchanged

SupervisorFinalizeNode ==
    /\ pc = "supervisor_finalize"
    /\ \E llm_ok \in BOOLEAN, tie \in BOOLEAN :
          LET s0 == [state EXCEPT !.phase = "REPORT_GENERATION"]
          IN state' = Completed(SupervisorAnalyze(Started(s0, "Supervisor"), llm_ok, tie),
                                "Supervisor")
    /\ pc' = "END"
    /\ HarnessUnchanged

----------------------------------------------------------------------------
(* run_reconciliation_analysis(break_alert) *)

Init ==
    /\ \E alert \in Alerts \cup {NoAlert} :
          state = [AgentState EXCEPT !.break_alert = alert]
    /\ pc = "supervisor_init"
    /\ HarnessIdle

Next ==
    \/ SupervisorInitNode
    \/ L0Node
    \/ L0NodeRaises
    \/ L1Node
    \/ L2Node
    \/ PatternMatchNode
    \/ SupervisorFinalizeNode

Spec == Init /\ [][Next]_vars

\* every node that is entered runs to its end
FairSpec == Spec /\ WF_vars(Next)

----------------------------------------------------------------------------
(* l3_transaction_node and specialist_router_node.                         *)
(* In the graph run above L2 never reports a breaking position             *)
(* (_compare_positions copies the CPU value), so these two nodes are only  *)
(* entered with a state whose position variances come from a real          *)
(* incumbent comparison.  DrillInit is the state L2's own loop leaves for  *)
(* such variances; the run is followed up to the pattern_match edge.       *)

PositionVariance(asset_id, cpu_value, incumbent_value) ==
    [kind |-> "VarianceDetail",
     component |-> asset_id,
     cpu_value |-> cpu_value,
     incumbent_value |-> incumbent_value,
     variance_absolute |-> cpu_value - incumbent_value,
     is_material |-> cpu_value # incumbent_value]

ComparedPositions ==
    {PositionVariance("A1", 50000, 48500),
     PositionVariance("B2", 7000, 9000),
     PositionVariance("C3", 300, 300)}

DrillAlert ==
    [kind |-> "BreakAlert", nav_per_share_variance |-> -600,
     variance_relative |-> -120, variance_absolute |-> -24500]

\* the state at the end of l1_gl for DrillAlert with one breaking bucket
AfterL1(driver) ==
    LET s0 == [AgentState EXCEPT !.break_alert = DrillAlert]
        s1 == Completed(SupervisorAnalyze(Started(s0, "Supervisor"), TRUE, FALSE),
                        "Supervisor")
        s2 == Completed(L0Analyze(Started(s1, "L0_NAV_Agent"), <<>>, driver),
                        "L0_NAV_Agent")
    IN Completed(L1Analyze(Started(s2, "L1_GL_Agent"),
                           <<[gl_category |-> "ASSET", total_balance |-> 5002000]>>,
                           <<[gl_category |-> "ASSET", total_balance |-> 5000000]>>),
                 "L1_GL_Agent")

DrillInit ==
    /\ \E driver \in {"INCOME_DRIVEN", "POSITION_DRIVEN"},
          position_variances \in SeqsUpTo(ComparedPositions, MaxPositions),
          llm_ok \in BOOLEAN :
          LET s == Started(AfterL1(driver), "L2_SubLedger_Agent")
              positions == Map(position_variances,
                               LAMBDA v : [asset_id |-> v.component,
                                           pos_market_value_base |-> v.cpu_value])
          IN state = Completed(
                        L2AnalyzeCompared([s EXCEPT !.phase = "L2_SUBLEDGER_ANALYSIS"],
                                          positions, position_variances, llm_ok),
                        "L2_SubLedger_Agent")
    /\ pc = should_continue_to_l3(state)
    /\ HarnessIdle

DrillNext ==
    \/ L3Node
    \/ SpecialistRouterNode

SpecDrill == DrillInit /\ [][DrillNext]_vars

----------------------------------------------------------------------------
(* The run from the edge after l2_subledger to END, for position variances *)
(* that come from a real incumbent comparison: l3_transaction,             *)
(* specialist_router, pattern_match and supervisor_finalize.               *)

\* the state at the end of l2_subledger
AfterL2(driver, position_variances, llm_ok) ==
    LET s == Started(AfterL1(driver), "L2_SubLedger_Agent")
        positions == Map(position_variances,
                         LAMBDA v : [asset_id |-> v.component,
                                     pos_market_value_base |-> v.cpu_value])
    IN Completed(L2AnalyzeCompared([s EXCEPT !.phase = "L2_SUBLEDGER_ANALYSIS"],
                                   positions, position_variances, llm_ok),
                 "L2_SubLedger_Agent")

RoutePositions ==
    {<<>>,
     <<PositionVariance("C3", 300, 300)>>,
     <<PositionVariance("A1", 50000, 48500)>>,
     <<PositionVariance("A1", 50000, 48500), PositionVariance("B2", 7000, 9000)>>}

RouteInit ==
    /\ \E driver \in {"INCOME_DRIVEN", "POSITION_DRIVEN"},
          position_variances \in RoutePositions,
          llm_ok \in BOOLEAN :
          state = AfterL2(driver, position_variances, llm_ok)
    /\ pc = should_continue_to_l3(state)
    /\ HarnessIdle

RouteNext ==
    \/ L3Node
    \/ SpecialistRouterNode
    \/ PatternMatchNode
    \/ SupervisorFinalizeNode

SpecRoute == RouteInit /\ [][RouteNext]_vars

----------------------------------------------------------------------------
(* AgentState.check_escalation called on a state in any phase *)

EscalationRootCauses ==
    LET rc(c, d) == RootCause(create_finding("L1_GL_Agent", <<d>>, NoEvidence, c,
                                             "", "L1_GL"))
    IN {<<>>,
        <<rc(95, 78)>>,
        <<rc(95, 78), rc(80, 70)>>,
        <<rc(90, 71), rc(75, 80)>>,
        <<rc(95, 78), rc(60, 80)>>,
        <<rc(95, 78), rc(90, 71), rc(60, 80)>>}

EscalationInit ==
    /\ \E alert \in Alerts \cup {NoAlert},
          phase \in AnalysisPhase,
          confidence \in {Rational(0, 1), Rational(69, 100), Rational(70, 100),
                          Rational(1, 1)},
          matched_patterns \in SeqsUpTo(PatternRows, 1),
          root_causes \in EscalationRootCauses :
          state = [AgentState EXCEPT !.break_alert = alert,
                                     !.phase = phase,
                                     !.overall_confidence = confidence,
                                     !.matched_patterns = matched_patterns,
                                     !.root_causes = root_causes]
    /\ pc = "check_escalation"
    /\ HarnessIdle

ConfidenceThresholds == {50, CONFIDENCE_ESCALATION_THRESHOLD}

CriticalThresholds == {CRITICAL_BREAK_THRESHOLD, 5000}

\* mutant: the check also moves an escalated state to phase ESCALATED
CheckEscalation_sets_phase ==
    /\ pc = "check_escalation"
    /\ \E confidence_threshold \in ConfidenceThresholds,
          critical_nav_threshold \in CriticalThresholds,
          tie \in BOOLEAN :
          LET checked == check_escalation(state, confidence_threshold,
                                         critical_nav_threshold, tie)
          IN state' = [checked EXCEPT !.phase = IF checked.should_escalate
                                                  THEN "ESCALATED" ELSE @]
    /\ UNCHANGED pc
    /\ HarnessUnchanged

CheckEscalation ==
    /\ pc = "check_escalation"
    /\ \E confidence_threshold \in ConfidenceThresholds,
          critical_nav_threshold \in CriticalThresholds,
          tie \in BOOLEAN :
          state' = check_escalation(state, confidence_threshold,
                                    critical_nav_threshold, tie)
    /\ UNCHANGED pc
    /\ HarnessUnchanged

SpecEscalation == EscalationInit /\ [][CheckEscalation]_vars

----------------------------------------------------------------------------
(* L3TransactionAgent._match_transactions with both transaction lists *)

CpuTransactions ==
    {Txn(0, k[1], k[2], amount) :
        k \in {<<"DIV", 1>>, <<"DIV", 2>>, <<"BUY", 1>>},
        amount \in {100000, 100050}}

IncumbentTransactions ==
    {Txn(0, k[1], k[2], amount) :
        k \in {<<"DIV", 1>>, <<"BUY", 1>>},
        amount \in {100000, 100001, 100050, 100100, 100300}}

\* transaction_id is the primary key: number the rows
Numbered(txns, base) == [i \in 1..Len(txns) |-> [txns[i] EXCEPT !.transaction_id = base + i]]

MatchInit ==
    /\ \E cpu \in SeqsUpTo(CpuTransactions, MaxMatchTxns),
          incumbent \in SeqsUpTo(IncumbentTransactions, MaxMatchTxns) :
          /\ cpu_txns = Numbered(cpu, 0)
          /\ incumbent_txns = Numbered(incumbent, 10)
    /\ match_result = NoMatches
    /\ state = AgentState
    /\ pc = "match"

Match ==
    /\ pc = "match"
    /\ \E tie \in BOOLEAN :
          match_result' = MatchAgainst(cpu_txns, incumbent_txns, tie, NoMatches)
    /\ pc' = "matched"
    /\ UNCHANGED <<state, cpu_txns, incumbent_txns>>

SpecMatch == MatchInit /\ [][Match]_vars

----------------------------------------------------------------------------
(* supervisor_finalize_node on a state whose all_findings is any list the  *)
(* stages may have accumulated: a base list followed by findings of the    *)
(* pool.                                                                   *)

AgentFinding(level, description, confidence) ==
    create_finding(level, description, NoEvidence, confidence, "", level)

\* a description of 101 characters: the last one is beyond the key
LongDescription(last) == [i \in 1..DESC_KEY_LEN + 1 |-> IF i > DESC_KEY_LEN THEN last ELSE 120]

\* confidences 0.95, 0.92, 0.80, 0.60, 0.55 with distinct descriptions
FiveFindings ==
    <<AgentFinding("L0_NAV", <<78>>, 95),
      AgentFinding("L1_GL", <<71>>, 92),
      AgentFinding("L2_SUBLEDGER", <<80>>, 80),
      AgentFinding("L3_TRANSACTION", <<79>>, 60),
      AgentFinding("PATTERN_MATCH", <<110>>, 55)>>

\* twelve findings with distinct descriptions, confidences 0.65, 0.70,
\* 0.75, 0.60 in rotation
TwelveFindings ==
    [i \in 1..12 |-> AgentFinding("L3_TRANSACTION", <<79, Digit(i % 10), Digit(i \div 10)>>,
                                  60 + 5 * (i % 4))]

BaseFindings == {<<>>, FiveFindings, TwelveFindings}

FindingPool ==
    {AgentFinding("L0_NAV", <<78>>, 95),
     AgentFinding("L2_SUBLEDGER", <<70>>, 80),
     AgentFinding("SPECIALIST_FX", <<102>>, 80),
     AgentFinding("L3_TRANSACTION", <<77>>, 60),
     AgentFinding("PATTERN_MATCH", <<110>>, 50),
     AgentFinding("SPECIALIST_CA", LongDescription(49), 75),
     AgentFinding("SPECIALIST_CA", LongDescription(50), 80)}

\* an alert below and one above the critical relative variance
FinalizeAlerts == {DrillAlert, [DrillAlert EXCEPT !.variance_relative = -1200]}

FinalizePatterns == {<<>>, <<[pattern_name |-> 65, avg_confidence |-> 90]>>}

FinalizeInit ==
    /\ \E alert \in FinalizeAlerts, base \in BaseFindings,
          more \in SeqsUpTo(FindingPool, MaxFindings),
          matched_patterns \in FinalizePatterns :
          state = [AgentState EXCEPT !.break_alert = alert,
                                     !.phase = "PATTERN_MATCHING",
                                     !.all_findings = base \o more,
                                     !.step_count = Len(base \o more),
                                     !.matched_patterns = matched_patterns]
    /\ pc = "supervisor_finalize"
    /\ HarnessIdle

SpecFinalize == FinalizeInit /\ [][SupervisorFinalizeNode]_vars

----------------------------------------------------------------------------
(* Properties *)

Ran(agent) ==
    \E i \in 1..Len(state.agent_trace) : state.agent_trace[i] = <<agent, "started">>

Finished(agent) ==
    \E i \in 1..Len(state.agent_trace) : state.agent_trace[i] = <<agent, "completed">>

SpecialistRan == \E name \in SpecialistNames : Ran(name)

AlertPresent == state.break_alert.kind # "None"

AlertMaterial ==
    /\ AlertPresent
    /\ Abs(state.break_alert.nav_per_share_variance) > MATERIALITY_THRESHOLD_ABSOLUTE

TerminalPhases == {"COMPLETED", "ESCALATED"}

RunOver == pc \in {"END", "raised"}

\* C1: every run of run_reconciliation_analysis ends with the state in a
\* terminal phase (COMPLETED or ESCALATED); it never stops in an
\* intermediate phase.
C1_RunEndsInTerminalPhase ==
    RunOver => state.phase \in TerminalPhases

\* C2: L1 executes iff the alert's |nav_per_share_variance| is strictly
\* above the per-share threshold; when it is not, the node after L0 is
\* supervisor_finalize, none of L1, L2, L3, the specialists or the pattern
\* agent ever runs, and their finding buckets stay empty.
C2_L1IffMaterial ==
    /\ Ran("L1_GL_Agent") => AlertMaterial
    /\ (Finished("L0_NAV_Agent") /\ AlertMaterial)
          => (pc = "l1_gl" \/ Ran("L1_GL_Agent"))
    /\ (Finished("L0_NAV_Agent") /\ ~AlertMaterial)
          => /\ pc \in {"supervisor_finalize", "END"}
             /\ state.phase \in {"L0_NAV_ANALYSIS", "REPORT_GENERATION"} \cup TerminalPhases
             /\ ~Ran("L1_GL_Agent") /\ ~Ran("L2_SubLedger_Agent")
             /\ ~Ran("L3_Transaction_Agent") /\ ~SpecialistRan /\ ~Ran("PatternAgent")
             /\ state.l1_findings = <<>> /\ state.l2_findings = <<>>
             /\ state.l3_findings = <<>> /\ state.specialist_findings = <<>>
             /\ state.pattern_findings = <<>>

C2_Witness ==
    /\ pc = "END"
    /\ AlertPresent /\ ~AlertMaterial
    /\ Abs(state.break_alert.nav_per_share_variance) = MATERIALITY_THRESHOLD_ABSOLUTE
    /\ Finished("L0_NAV_Agent")

\* C3: a run for an alert whose per-share variance is not above the
\* materiality threshold returns with phase COMPLETED.
C3_ImmaterialCompletes ==
    (pc = "END" /\ AlertPresent /\ ~AlertMaterial) => state.phase = "COMPLETED"

GLBreakFound ==
    \E i \in 1..Len(state.gl_variances) : state.gl_variances[i].is_material

\* C4: L2 executes iff L1 found a materially differing GL category; when
\* L1 found none, the node after L1 is pattern_match, neither L2 nor L3
\* nor a specialist ever runs, and l2_findings and l3_findings stay empty.
C4_L2IffBreakingBuckets ==
    /\ Ran("L2_SubLedger_Agent") => GLBreakFound
    /\ (Finished("L1_GL_Agent") /\ GLBreakFound)
          => (pc = "l2_subledger" \/ Ran("L2_SubLedger_Agent"))
    /\ (Finished("L1_GL_Agent") /\ ~GLBreakFound)
          => /\ pc = "pattern_match" \/ Ran("PatternAgent")
             /\ state.breaking_gl_buckets = <<>>
             /\ ~Ran("L2_SubLedger_Agent") /\ ~Ran("L3_Transaction_Agent")
             /\ ~SpecialistRan
             /\ state.phase \notin {"L2_SUBLEDGER_ANALYSIS", "L3_TRANSACTION_ANALYSIS",
                                    "SPECIALIST_ANALYSIS"}
             /\ state.l2_findings = <<>> /\ state.l3_findings = <<>>

C4_Witness ==
    /\ pc = "END"
    /\ Finished("L1_GL_Agent")
    /\ state.gl_variances # <<>> /\ ~GLBreakFound
    /\ Ran("PatternAgent")

\* C5: a run started without an alert ends at once in COMPLETED: no later
\* stage runs, all_findings is empty and the returned phase is COMPLETED.
C5_NoAlertCompletesAtOnce ==
    (pc = "END" /\ ~AlertPresent)
       => /\ state.phase = "COMPLETED"
          /\ state.all_findings = <<>>
          /\ ~Ran("L0_NAV_Agent")

PhaseRank(phase) ==
    IF phase \in TerminalPhases THEN Len(Phases)
    ELSE CHOOSE i \in 1..Len(Phases) : Phases[i] = phase

\* C6: the phase only moves forward in the order of the phase list, and
\* once it is COMPLETED or ESCALATED nothing in the run state changes.
C6_PhaseOnlyForward ==
    [][/\ PhaseRank(state'.phase) >= PhaseRank(state.phase)
       /\ state.phase \in TerminalPhases => state' = state]_vars

C8_ConfidenceInUnitInterval ==
    /\ state.overall_confidence.num >= 0
    /\ state.overall_confidence.num <= state.overall_confidence.den
    /\ state.all_findings = <<>> => state.overall_confidence.num = 0

ReasonKinds(s) == Map(s.escalation_reasons, LAMBDA r : r.reason_type)

\* C9: check_escalation called a second time on the state it has just
\* updated, with the same thresholds, leaves the same list of reason kinds
\* and the same should_escalate as the first call.
C9_CheckEscalationIdempotent ==
    \A confidence_threshold \in ConfidenceThresholds,
       critical_nav_threshold \in CriticalThresholds,
       tie \in BOOLEAN :
       LET once == check_escalation(state, confidence_threshold,
                                    critical_nav_threshold, tie)
           twice == check_escalation(once, confidence_threshold,
                                     critical_nav_threshold, tie)
       IN /\ ReasonKinds(twice) = ReasonKinds(once)
          /\ twice.should_escalate = once.should_escalate
          /\ twice.escalation_reasons = once.escalation_reasons

C9_Witness ==
    /\ state.should_escalate
    /\ Len(state.escalation_reasons) >= 3

Occurrences(records, id) ==
    Cardinality({i \in 1..Len(records) : records[i].transaction_id = id})

\* C10: the matcher puts every CPU transaction in exactly one of matches,
\* diffs and orphans, once.
C10_EveryCpuTxnInOneOutput ==
    pc = "matched" =>
       /\ \A i \in 1..Len(cpu_txns) :
             Occurrences(match_result.matches, cpu_txns[i].transaction_id)
             + Occurrences(match_result.diffs, cpu_txns[i].transaction_id)
             + Occurrences(match_result.orphans, cpu_txns[i].transaction_id) = 1
       /\ Len(match_result.matches) + Len(match_result.diffs)
          + Len(match_result.orphans) = Len(cpu_txns)

\* a CPU transaction with two candidate incumbents, next to an orphan
C10_Witness ==
    /\ pc = "matched"
    /\ match_result.orphans # <<>>
    /\ \E i \in 1..Len(cpu_txns), j, k \in 1..Len(incumbent_txns) :
          /\ j < k
          /\ _fuzzy_match(cpu_txns[i], incumbent_txns[j], FALSE)
          /\ _fuzzy_match(cpu_txns[i], incumbent_txns[k], FALSE)

\* |cpu - inc| <= max(|cpu| * 0.001, 1.0) on exact amounts (cents)
WithinTolerance(cpu, inc) ==
    1000 * Abs(cpu.amount_base - inc.amount_base)
        <= Max(Abs(cpu.amount_base), 100000)

Satisfies(cpu, inc) ==
    /\ cpu.trans_code = inc.trans_code
    /\ cpu.trade_date = inc.trade_date
    /\ WithinTolerance(cpu, inc)

\* the incumbent transaction a bound record was built from
BoundTo(record, cpu) ==
    \E j \in 1..Len(incumbent_txns) :
       /\ Satisfies(cpu, incumbent_txns[j])
       /\ record.incumbent_amount = incumbent_txns[j].amount_base
       /\ record.cpu_amount = cpu.amount_base

SourceIndex(rc) ==
    CHOOSE i \in 1..Len(state.all_findings) :
       /\ RootCause(state.all_findings[i]) = rc
       /\ \A j \in 1..(i - 1) : RootCause(state.all_findings[j]) # rc

\* C12: after finalization root_causes has at most 10 entries, every entry
\* comes from a finding, the confidences never increase along the list,
\* and two entries of equal confidence stand in the order in which their
\* findings were inserted into all_findings.
C12_RootCausesBoundedSorted ==
    pc = "END" =>
       /\ Len(state.root_causes) <= 10
       /\ \A i \in 1..Len(state.root_causes) :
             \E k \in 1..Len(state.all_findings) :
                RootCause(state.all_findings[k]) = state.root_causes[i]
       /\ \A i, j \in 1..Len(state.root_causes) :
             i < j => /\ state.root_causes[i].confidence >= state.root_causes[j].confidence
                      /\ state.root_causes[i].confidence = state.root_causes[j].confidence
                           => SourceIndex(state.root_causes[i])
                                < SourceIndex(state.root_causes[j])

\* more than ten candidates, cut to ten, with entries of equal confidence
C12_Witness ==
    /\ pc = "END"
    /\ Len(state.all_findings) > 10
    /\ Len(state.root_causes) = 10
    /\ \E i \in 1..9 :
          state.root_causes[i].confidence = state.root_causes[i + 1].confidence

\* reference procedure, step 1: position of all_findings[i] after a stable
\* sort by descending confidence
SortedPosition(fs, i) ==
    1 + Cardinality({j \in 1..Len(fs) :
                       \/ fs[j].confidence > fs[i].confidence
                       \/ fs[j].confidence = fs[i].confidence /\ j < i})

ReferenceSorted(fs) ==
    [k \in 1..Len(fs) |-> fs[CHOOSE i \in 1..Len(fs) : SortedPosition(fs, i) = k]]

ReferenceKey(f) ==
    [i \in 1..Min(Len(f.description), 100) |-> Lower(f.description[i])]

\* steps 2-4: drop below 0.60, keep the first of each key, keep ten
ReferenceRootCauses(fs) ==
    LET sorted == ReferenceSorted(fs)
        kept == {k \in 1..Len(sorted) :
                    /\ sorted[k].confidence >= 60
                    /\ \A j \in 1..(k - 1) :
                          sorted[j].confidence >= 60
                             => ReferenceKey(sorted[j]) # ReferenceKey(sorted[k])}
        survivors == SelectSeq([k \in 1..Len(sorted) |-> <<k, sorted[k]>>],
                               LAMBDA e : e[1] \in kept)
    IN [k \in 1..Min(Len(survivors), 10) |-> RootCause(survivors[k][2])]

\* C13: root_causes is what the reference procedure gives on all_findings
\* (stable sort by descending confidence, drop confidence < 0.60 keeping
\* exactly 0.60, keep the first finding of each key = first 100
\* characters of the lower-cased description, keep the first ten); for
\* confidences 0.95, 0.92, 0.80, 0.60, 0.55 with distinct descriptions the
\* result is the first four in that order.
C13_RootCausesMatchReference ==
    pc = "END" =>
       /\ state.root_causes = ReferenceRootCauses(state.all_findings)
       /\ state.all_findings = FiveFindings
             => state.root_causes = [k \in 1..4 |-> RootCause(FiveFindings[k])]

\* a finding at the floor is kept, one below it is dropped, and one is
\* dropped for a key that differs only by case or beyond 100 characters
C13_Witness ==
    /\ pc = "END"
    /\ \E i \in 1..Len(state.root_causes) : state.root_causes[i].confidence = 60
    /\ \E i \in 1..Len(state.all_findings) : state.all_findings[i].confidence < 60
    /\ \E i, j \in 1..Len(state.all_findings) :
          /\ i # j
          /\ state.all_findings[i].description # state.all_findings[j].description
          /\ ReferenceKey(state.all_findings[i]) = ReferenceKey(state.all_findings[j])

Kinds(s) == {s.escalation_reasons[i].reason_type : i \in 1..Len(s.escalation_reasons)}

CountKind(s, kind) ==
    Cardinality({i \in 1..Len(s.escalation_reasons) :
                    s.escalation_reasons[i].reason_type = kind})

PastL0 == PhaseRank(state.phase) > PhaseRank("L0_NAV_ANALYSIS")

ConfidenceBelow(confidence_threshold) ==
    100 * state.overall_confidence.num
        < confidence_threshold * state.overall_confidence.den

\* C14: check_escalation records LOW_CONFIDENCE iff overall_confidence is
\* below the confidence threshold and the phase is past L0; in INITIATED
\* and L0_NAV_ANALYSIS it never records it, however low the confidence.
C14_LowConfidenceIffPastL0 ==
    /\ \A confidence_threshold \in ConfidenceThresholds,
          critical_nav_threshold \in CriticalThresholds,
          tie \in BOOLEAN :
          LET after == check_escalation(state, confidence_threshold,
                                        critical_nav_threshold, tie)
          IN "LOW_CONFIDENCE" \in Kinds(after)
                <=> (ConfidenceBelow(confidence_threshold) /\ PastL0)
    /\ \A i \in 1..Len(state.escalation_reasons) :
          LET r == state.escalation_reasons[i]
          IN r.reason_type = "LOW_CONFIDENCE"
                => /\ PastL0
                   /\ RatLess(state.overall_confidence, r.threshold_value[1])
                   /\ r.actual_value[1] = state.overall_confidence

\* a check in L0 with confidence 0 that escalated for another reason only
C14_Witness ==
    /\ state.phase = "L0_NAV_ANALYSIS"
    /\ state.overall_confidence.num = 0
    /\ state.should_escalate
    /\ "LOW_CONFIDENCE" \notin Kinds(state)

\* C15: check_escalation records NOVEL_PATTERN iff matched_patterns is
\* empty and the phase is PATTERN_MATCHING, REPORT_GENERATION, ESCALATED
\* or COMPLETED.
C15_NovelPatternIffAtOrAfterMatching ==
    \A confidence_threshold \in ConfidenceThresholds,
       critical_nav_threshold \in CriticalThresholds,
       tie \in BOOLEAN :
       LET after == check_escalation(state, confidence_threshold,
                                     critical_nav_threshold, tie)
       IN "NOVEL_PATTERN" \in Kinds(after)
             <=> /\ state.matched_patterns = <<>>
                 /\ PhaseRank(state.phase) >= PhaseRank("PATTERN_MATCHING")

\* the two highest confidences among the root causes
TopGap ==
    LET cs == {i \in 1..Len(state.root_causes) :
                  \A j \in 1..Len(state.root_causes) :
                     state.root_causes[j].confidence <= state.root_causes[i].confidence}
        first == CHOOSE i \in cs : TRUE
        rest == (1..Len(state.root_causes)) \ {first}
        second == CHOOSE i \in rest :
                     \A j \in rest :
                        state.root_causes[j].confidence <= state.root_causes[i].confidence
    IN state.root_causes[first].confidence - state.root_causes[second].confidence

\* C16: check_escalation evaluates the four rules independently: the
\* reasons hold exactly one entry for each rule whose condition holds
\* (LOW_CONFIDENCE; CRITICAL_MAGNITUDE when an alert is present and
\* |variance_relative| is above the critical threshold, in any phase;
\* NOVEL_PATTERN in the phases where the check records it;
\* CONFLICTING_CAUSES when there are at least two root causes whose two
\* highest confidences differ by less than 0.15, a difference of exactly
\* 0.15 being decided by the rounding of the float subtraction), nothing
\* else, and should_escalate is true iff at least one rule fired.
C16_RulesIndependent ==
    \A confidence_threshold \in ConfidenceThresholds,
       critical_nav_threshold \in CriticalThresholds,
       tie \in BOOLEAN :
       LET after == check_escalation(state, confidence_threshold,
                                     critical_nav_threshold, tie)
           low == ConfidenceBelow(confidence_threshold) /\ PastL0
           critical == /\ AlertPresent
                       /\ Abs(state.break_alert.variance_relative) > critical_nav_threshold
           novel == /\ state.matched_patterns = <<>>
                    /\ state.phase \in {"PATTERN_MATCHING", "REPORT_GENERATION"}
           conflicting == /\ Len(state.root_causes) >= 2
                          /\ \/ TopGap < CONFLICT_GAP
                             \/ TopGap = CONFLICT_GAP /\ tie
           Count(b) == IF b THEN 1 ELSE 0
       IN /\ CountKind(after, "LOW_CONFIDENCE") = Count(low)
          /\ CountKind(after, "CRITICAL_MAGNITUDE") = Count(critical)
          /\ CountKind(after, "NOVEL_PATTERN") = Count(novel)
          /\ CountKind(after, "CONFLICTING_CAUSES") = Count(conflicting)
          /\ Len(after.escalation_reasons)
                = Count(low) + Count(critical) + Count(novel) + Count(conflicting)
          /\ after.should_escalate <=> (low \/ critical \/ novel \/ conflicting)

\* a check after which all four reasons are recorded together
C16_Witness ==
    /\ Len(state.escalation_reasons) = 4
    /\ Kinds(state) = {"LOW_CONFIDENCE", "CRITICAL_MAGNITUDE", "NOVEL_PATTERN",
                       "CONFLICTING_CAUSES"}
    /\ state.should_escalate

\* the fields finalization writes whatever the outcome
Aggregated(before, after) ==
    [before EXCEPT !.phase = after.phase,
                   !.current_agent = "Supervisor",
                   !.agent_trace = @ \o <<<<"Supervisor", "started">>,
                                          <<"Supervisor", "finalizing_analysis">>,
                                          <<"Supervisor", "completed">>>>,
                   !.root_causes = ReferenceRootCauses(before.all_findings),
                   !.overall_confidence = _calculate_confidence(before),
                   !.root_cause_narrative = after.root_cause_narrative,
                   !.escalation_reasons = after.escalation_reasons,
                   !.should_escalate = after.should_escalate,
                   !.messages = after.messages]

\* C17: finalization always computes root_causes and overall_confidence
\* and then runs the escalation check; the terminal phase is ESCALATED iff
\* should_escalate (escalation_reasons non-empty) and COMPLETED iff not,
\* and besides the phase only the supervisor's message differs with the
\* outcome.
C17_FinalizationOutcome ==
    [][(pc = "supervisor_finalize" /\ pc' = "END") =>
         /\ state' = Aggregated(state, state')
         /\ state'.should_escalate <=> state'.escalation_reasons # <<>>
         /\ \E tie \in BOOLEAN :
               state'.escalation_reasons
                  = check_escalation([state' EXCEPT !.phase = "REPORT_GENERATION"],
                                     CONFIDENCE_ESCALATION_THRESHOLD,
                                     CRITICAL_BREAK_THRESHOLD, tie).escalation_reasons
         /\ state'.phase = "ESCALATED" <=> state'.should_escalate
         /\ state'.phase = "COMPLETED" <=> ~state'.should_escalate
         /\ state'.messages
               = Append(state.messages,
                        IF state'.should_escalate THEN "escalated" ELSE "complete")]_vars

\* a finalization that completed with several root causes
C17_Witness ==
    /\ pc = "END"
    /\ state.phase = "COMPLETED"
    /\ ~state.should_escalate
    /\ Len(state.root_causes) >= 2
    /\ state.overall_confidence.num > 0

TraceCount(agent, action) ==
    Cardinality({i \in 1..Len(state.agent_trace) :
                    state.agent_trace[i] = <<agent, action>>})

StageNames ==
    {"Supervisor", "L0_NAV_Agent", "L1_GL_Agent", "L2_SubLedger_Agent",
     "L3_Transaction_Agent", "PatternAgent"} \cup SpecialistNames

\* C18: a failing data fetch gives its stage an empty result; the stage
\* completes with what it has, the run goes on through the routing to a
\* terminal phase, and no error reaches the caller.
C18_FetchFailuresAbsorbed ==
    /\ \A rows \in NavComponentResults : _fetch_nav_components(rows, FALSE) = <<>>
    /\ \A rows \in GLBalanceResults : _fetch_gl_balances(rows, FALSE) = <<>>
    /\ \A rows \in PositionResults : _fetch_positions(rows, FALSE) = <<>>
    /\ \A rows \in TransactionResults : _fetch_transactions(rows, FALSE) = <<>>
    /\ \A rows \in PatternResults : _search_patterns("DATA", rows, FALSE) = <<>>
    /\ \A rows \in SimilarBreakResults : _find_similar_breaks(state, rows, FALSE) = <<>>
    /\ (pc = "l0_nav" /\ AlertPresent)
          => \A rows \in NavComponentResults, llm \in LLMClassifyResults :
                _classify_break_driver(state.break_alert,
                                       _fetch_nav_components(rows, FALSE), llm)
                   \in BreakDriver
    /\ \A agent \in StageNames :
          TraceCount(agent, "started") = TraceCount(agent, "completed")
    /\ pc \notin {"supervisor_init", "l0_nav", "l1_gl", "l2_subledger",
                  "l3_transaction", "specialist_router", "pattern_match",
                  "supervisor_finalize"}
          => (pc = "END" /\ state.phase \in TerminalPhases)

\* C19: a failing Reasoner call never aborts the run and its call site
\* uses the fixed fallback: L0 without a GL breakdown takes MULTI_FACTOR
\* when the classification raises or returns an unknown label, an L2
\* position finding has confidence 0.60 when the summary call fails, and
\* the pattern category is DATA when its classification fails.
C19_ReasonerFailuresFallBack ==
    /\ pc # "raised"
    /\ (AlertPresent /\ Ran("L0_NAV_Agent"))
          => /\ Finished("L0_NAV_Agent")
             /\ state.primary_driver \in BreakDriver
    /\ AlertPresent
          => _classify_break_driver(state.break_alert, <<>>, "not a label")
                = "MULTI_FACTOR"
    /\ \A v \in ComparedPositions :
          _analyze_position(BreakingPosition(v), FALSE).confidence = 60
    /\ _determine_category(state, RaisedException) = "DATA"
    /\ \A i \in 1..Len(state.l2_findings) :
          state.l2_findings[i].confidence \in {60, 75, 85}

IsPrefix(s, u) == Len(s) <= Len(u) /\ SubSeq(u, 1, Len(s)) = s

\* C20: add_finding appends the finding at the end of all_findings and
\* adds exactly 1 to step_count; no stage removes, reorders or replaces an
\* element, so every step leaves the old all_findings as a prefix of the
\* new one and step_count equals the length of all_findings.
C20_FindingsAppendOnly ==
    [][/\ IsPrefix(state.all_findings, state'.all_findings)
       /\ state.step_count = Len(state.all_findings)
       /\ state'.step_count = Len(state'.all_findings)
       /\ \A f \in FindingPool :
             LET added == add_finding(state', f)
             IN /\ added.all_findings = Append(state'.all_findings, f)
                /\ added.step_count = state'.step_count + 1
                /\ [added EXCEPT !.all_findings = state'.all_findings,
                                  !.step_count = state'.step_count] = state']_vars

\* a finished run in which L0, L1 and the pattern agent added findings
C20_Witness ==
    /\ pc = "END"
    /\ Len(state.all_findings) >= 4
    /\ state.l0_findings # <<>> /\ state.l1_findings # <<>>
    /\ state.pattern_findings # <<>>
    /\ Len(state.all_findings)
          = Len(state.l0_findings) + Len(state.l1_findings) + Len(state.l2_findings)
            + Len(state.pattern_findings)

NextStage(breaking, worklist) ==
    IF breaking # <<>> THEN "L3_TRANSACTION_ANALYSIS"
    ELSE IF worklist # <<>> THEN "SPECIALIST_ANALYSIS"
    ELSE "PATTERN_MATCHING"

\* C21: after L2 the next stage is L3 iff breaking_positions is non-empty,
\* otherwise SPECIALIST iff specialists_invoked is non-empty, otherwise
\* PATTERN_MATCHING; after L3 it is SPECIALIST iff the worklist is
\* non-empty and PATTERN_MATCHING otherwise; SPECIALIST is followed by
\* PATTERN_MATCHING, and PATTERN_MATCHING by the report generation of
\* supervisor_finalize.
C21_RoutingAfterL2 ==
    [][/\ state.phase = "L2_SUBLEDGER_ANALYSIS"
            => state'.phase = NextStage(state.breaking_positions,
                                        state.specialists_invoked)
       /\ state.phase = "L3_TRANSACTION_ANALYSIS"
            => state'.phase = NextStage(<<>>, state.specialists_invoked)
       /\ state.phase = "SPECIALIST_ANALYSIS"
            => state'.phase = "PATTERN_MATCHING"
       /\ state.phase = "PATTERN_MATCHING"
            => /\ pc = "supervisor_finalize" /\ pc' = "END"
               /\ state'.agent_trace[Len(state'.agent_trace) - 1]
                     = <<"Supervisor", "finalizing_analysis">>
               /\ state'.phase \in TerminalPhases]_vars

\* a finished run that went through L3, the specialists and the patterns
C21_Witness ==
    /\ pc = "END"
    /\ Finished("L3_Transaction_Agent")
    /\ SpecialistRan
    /\ Finished("PatternAgent")
    /\ state.phase \in TerminalPhases

InList(x, seq) == \E i \in 1..Len(seq) : seq[i] = x

PastSpecialists == pc \in {"pattern_match", "supervisor_finalize", "END"}

ActionKind(action) ==
    IF action = "Check income event timing - likely booking date difference"
      THEN "check timing"
    ELSE IF action = "Verify trade feed completeness - may be missing from incumbent"
      THEN "check feed completeness"
    ELSE IF action = "Invoke Corporate Action Agent - CA processing difference likely"
      THEN "invoke CA specialist"
    ELSE IF action = "Manual investigation required"
      THEN "manual investigation"
    ELSE "another action"

FixedActionTable(trans_code) ==
    IF trans_code \in {"DIV", "INT"} THEN "check timing"
    ELSE IF trans_code \in {"BUY", "SELL"} THEN "check feed completeness"
    ELSE IF trans_code \in {"SPLIT", "SPINOFF", "CALL", "MAT", "MERGER"}
      THEN "invoke CA specialist"
    ELSE "manual investigation"

\* descriptions of orphan findings start with code 79, those of
\* amount-difference findings with code 77
OrphanOrDiff(finding) == finding.description[1] \in {77, 79}

IndexPermutations(n) ==
    {f \in [1..n -> 1..n] : \A i, j \in 1..n : f[i] = f[j] => i = j}

Permuted(seq, f) == [i \in 1..Len(seq) |-> seq[f[i]]]

Times(seq, x) == Cardinality({i \in 1..Len(seq) : seq[i] = x})

SameMultiset(a, b) ==
    /\ Len(a) = Len(b)
    /\ \A i \in 1..Len(a) : Times(a, a[i]) = Times(b, a[i])

\* supervisor_finalize after pattern_match on the state a specialist run left
Finalized(s, matched_patterns, similar_breaks, llm_ok, tie) ==
    LET s1 == Completed(PatternAnalyze(Started(s, "PatternAgent"),
                                       matched_patterns, similar_breaks),
                        "PatternAgent")
    IN SupervisorAnalyze(Started([s1 EXCEPT !.phase = "REPORT_GENERATION"],
                                 "Supervisor"), llm_ok, tie)

Definite(cpu) ==
    \A j \in 1..Len(incumbent_txns) :
       1000 * Abs(cpu.amount_base - incumbent_txns[j].amount_base)
          # Max(Abs(cpu.amount_base), 100000)

IsFirstSatisfying(cpu, j) ==
    /\ Satisfies(cpu, incumbent_txns[j])
    /\ \A k \in 1..(j - 1) : ~Satisfies(cpu, incumbent_txns[k])

Bound == match_result.matches \o
         Map(match_result.diffs,
             LAMBDA d : [transaction_id |-> d.transaction_id,
                         trans_code |-> d.trans_code,
                         trade_date |-> d.trade_date,
                         cpu_amount |-> d.cpu_amount,
                         incumbent_amount |-> d.incumbent_amount])

Ascending(records) ==
    \A a, b \in 1..Len(records) :
       a < b => records[a].transaction_id < records[b].transaction_id

\* C25: matching is greedy: each CPU transaction, in list order, scans the
\* incumbent list from its start, binds to the first incumbent that
\* satisfies the criteria and stops; incumbents are not consumed, a bound
\* incumbent stays a candidate for the later CPU transactions.
C25_GreedyFirstMatch ==
    pc = "matched" =>
       /\ Ascending(match_result.matches)
       /\ Ascending(match_result.diffs)
       /\ Ascending(match_result.orphans)
       /\ \A i \in 1..Len(cpu_txns), j \in 1..Len(incumbent_txns) :
             (Definite(cpu_txns[i]) /\ IsFirstSatisfying(cpu_txns[i], j))
             => /\ Times(Bound, MatchRecord(cpu_txns[i], incumbent_txns[j])) = 1
                /\ \A k \in 1..Len(Bound) :
                      Bound[k].transaction_id = cpu_txns[i].transaction_id
                        => Bound[k] = MatchRecord(cpu_txns[i], incumbent_txns[j])

\* two CPU transactions bound to the same incumbent transaction, the first
\* of two that satisfy the later one
C25_Witness ==
    /\ pc = "matched"
    /\ Len(cpu_txns) = 2 /\ Len(incumbent_txns) = 2
    /\ Definite(cpu_txns[1]) /\ Definite(cpu_txns[2])
    /\ IsFirstSatisfying(cpu_txns[1], 1)
    /\ IsFirstSatisfying(cpu_txns[2], 1)
    /\ Satisfies(cpu_txns[2], incumbent_txns[2])
    /\ incumbent_txns[1].amount_base # incumbent_txns[2].amount_base
    /\ Len(Bound) = 2

EscalateNovel == "Escalate to human analyst for novel pattern investigation"

NovelFindings(findings) ==
    SelectSeq(findings, LAMBDA f : f.recommended_action = EscalateNovel)

\* C26: every execution of PATTERN_MATCHING with an alert appends at least
\* one finding to pattern_findings and the same findings to all_findings;
\* when neither a matched pattern nor a similar break is found it appends
\* exactly one finding, the novel-pattern finding whose action is to
\* escalate to a human analyst.
C26_PatternStageReports ==
    [][(pc = "pattern_match" /\ AlertPresent)
         => /\ state.pattern_findings = <<>>
            /\ Len(state'.pattern_findings) >= 1
            /\ state'.all_findings = state.all_findings \o state'.pattern_findings
            /\ (state'.matched_patterns = <<>>
                   /\ state'.historical_similar_breaks = <<>>)
                 => /\ Len(state'.pattern_findings) = 1
                    /\ state'.pattern_findings[1].recommended_action = EscalateNovel
                    /\ state'.pattern_findings[1].level = "PATTERN_MATCH"
            /\ (state'.matched_patterns # <<>>
                   \/ state'.historical_similar_breaks # <<>>)
                 => NovelFindings(state'.pattern_findings) = <<>>]_vars

\* the pattern stage found nothing and reported the novel pattern
C26_Witness ==
    /\ pc = "supervisor_finalize"
    /\ Finished("PatternAgent")
    /\ state.matched_patterns = <<>>
    /\ state.historical_similar_breaks = <<>>
    /\ Len(state.pattern_findings) = 1
    /\ state.pattern_findings[1].recommended_action = EscalateNovel

\* the stage whose agent produced the finding
StageRank(finding) ==
    CASE finding.agent_name = "L0_NAV_Agent" -> 1
      [] finding.agent_name = "L1_GL_Agent" -> 2
      [] finding.agent_name = "L2_SubLedger_Agent" -> 3
      [] finding.agent_name = "L3_Transaction_Agent" -> 4
      [] finding.agent_name \in SpecialistNames -> 5
      [] finding.agent_name = "PatternAgent" -> 6
      [] OTHER -> 0

ProducedBy(rank) == SelectSeq(state.all_findings, LAMBDA f : StageRank(f) = rank)

\* C27: all_findings is in stage order, L0 before L1 before L2 before L3
\* before the specialists before the patterns, and each per-level bucket
\* is exactly the subsequence of all_findings that its stage produced.
C27_FindingsInStageOrder ==
    /\ \A i, j \in 1..Len(state.all_findings) :
          i < j => /\ StageRank(state.all_findings[i]) >= 1
                   /\ StageRank(state.all_findings[i])
                         <= StageRank(state.all_findings[j])
    /\ state.l0_findings = ProducedBy(1)
    /\ state.l1_findings = ProducedBy(2)
    /\ state.l2_findings = ProducedBy(3)
    /\ state.l3_findings = ProducedBy(4)
    /\ state.specialist_findings = ProducedBy(5)
    /\ state.pattern_findings = ProducedBy(6)

\* a finished run with findings of all six stages, two of them from L3
C27_Witness ==
    /\ pc = "END"
    /\ \A rank \in 1..6 : ProducedBy(rank) # <<>>
    /\ Len(state.l3_findings) >= 2
    /\ Len(state.specialist_findings) >= 2

\* C28: a run ends COMPLETED only if matched_patterns is non-empty at
\* finalization; every run that does not execute PATTERN_MATCHING, and
\* every run for which the pattern store returns no pattern, ends
\* ESCALATED.
C28_CompletedOnlyWithPattern ==
    /\ (RunOver /\ state.phase = "COMPLETED") => state.matched_patterns # <<>>
    /\ (RunOver /\ (~Ran("PatternAgent") \/ state.matched_patterns = <<>>))
         => state.phase = "ESCALATED"

FrameOfCheck(before, after) ==
    /\ after.phase = before.phase
    /\ after.break_alert = before.break_alert
    /\ after.overall_confidence = before.overall_confidence
    /\ after.root_causes = before.root_causes
    /\ after.matched_patterns = before.matched_patterns
    /\ after.all_findings = before.all_findings
    /\ after.l0_findings = before.l0_findings
    /\ after.l1_findings = before.l1_findings
    /\ after.l2_findings = before.l2_findings
    /\ after.l3_findings = before.l3_findings
    /\ after.specialist_findings = before.specialist_findings
    /\ after.pattern_findings = before.pattern_findings
    /\ after.specialists_invoked = before.specialists_invoked
    /\ after.step_count = before.step_count
    /\ after = [before EXCEPT !.escalation_reasons = after.escalation_reasons,
                              !.should_escalate = after.should_escalate]

\* C30: check_escalation changes only escalation_reasons and
\* should_escalate; phase, break_alert, overall_confidence, root_causes,
\* matched_patterns, all_findings, every bucket, specialists_invoked and
\* step_count are left as they were.
C30_CheckEscalationFrame ==
    [][pc = "check_escalation" => FrameOfCheck(state, state')]_vars

\* the check has fired a reason on a state past L0 that carries an alert,
\* root causes and a matched pattern
C30_Witness ==
    /\ pc = "check_escalation"
    /\ state.should_escalate
    /\ state.escalation_reasons # <<>>
    /\ AlertPresent
    /\ state.phase = "REPORT_GENERATION"
    /\ state.root_causes # <<>>
    /\ state.matched_patterns # <<>>

\* the same frame for the call made by _finalize_analysis, on the states a
\* run hands to supervisor_finalize
CheckFrameAtFinalize ==
    pc = "supervisor_finalize" =>
      \A tie \in BOOLEAN :
         FrameOfCheck(state,
                      check_escalation(state, CONFIDENCE_ESCALATION_THRESHOLD,
                                       CRITICAL_BREAK_THRESHOLD, tie))

====
